---- MODULE Spec2Model ----
(***************************************************************************)
(* Model of the rolling-metrics and hierarchy engines of valuation-radar. *)
(*                                                                         *)
(*   SpecTree  the treemap frame loop of pages/2 (liquidity time machine)  *)
(*   SpecAnim  get_market_data of my_stock_pool.py / app.py (animated      *)
(*             radar: one record per entity and weekly sample date)        *)
(*   SpecSnap  calculate_metrics of pages/0 and pages/1 and                *)
(*             calculate_scanner_metrics of pages/3 (snapshot radars: one  *)
(*             record per entity, at the last date of its series)          *)
(*   SpecTrend the trend-structure classification of pages/0 and pages/1,  *)
(*             applied to four biases of any sign                          *)
(*   SpecAlign get_all_data of pages/2 (the aligned daily table)            *)
(*   SpecApp   app.py: the page script and its get_market_data             *)
(*   SpecRerun get_market_data called twice on one table                   *)
(*   SpecRadar, SpecPages, SpecLoops: unions of the above                  *)
(*                                                                         *)
(* Floats are modelled as exact rationals plus the IEEE specials NaN and   *)
(* +-inf; dates are day numbers, day t being a Friday iff t % 7 = 6.       *)
(***************************************************************************)
EXTENDS Integers, Sequences, FiniteSets, TLC

VARIABLES
    \* ---- pages/2: treemap
    df,             \* the aligned daily table returned by get_all_data
    pcT,            \* position of the page script: "gate", "loop", "done", "nopage", "idle"
    ti,             \* index into df_weekly.index of the next frame to build
    frames,         \* the list `frames`
    \* ---- my_stock_pool.py / app.py: animated radar
    now,            \* end_date = datetime.now(), as a day number
    data,           \* the downloaded table: ticker -> sequence of [day, px] (Close, NaN rows dropped)
    todo,           \* tickers not yet visited by the outer loop
    cur,            \* the ticker the outer loop is at, or NoTicker
    di,             \* index into display_dates of the next sample date
    processed_dfs,  \* the list `processed_dfs`
    full_df,        \* the returned frame: the records grouped by Date, in Date order
    pcA,            \* "run" while get_market_data runs, then "done"; "idle" elsewhere
    lookups,        \* history: the observation each momentum lookback read
    \* ---- pages/0, pages/1, pages/3: snapshot radars
    engine,         \* which page runs: "p0", "p1", "p3", or "idle"
    raw_data,       \* ticker -> sequence of [day, px] (Close, NaN rows dropped)
    pool,           \* the groups iterated, flattened: sequence of [group, ticker]
    pi,             \* index into pool of the next (group, ticker)
    spy_mom20,      \* the benchmark momentum
    pcS,            \* "bench", "loop", "done", "raised" (uncaught exception); "idle" elsewhere
    metrics,        \* the list `metrics`
    \* ---- pages/0, pages/1: the structure classification on its own
    bias,           \* the four biases [c_s, s_m, m_l, l_vl]
    structure,      \* the label assigned to them, "" before the classification
    \* ---- my_stock_pool.py / app.py: a second call on the same table
    first_df,       \* history: the frame the first call returned
    run_no,         \* 0 during the first call, 1 from the second call on
    \* ---- pages/2: get_all_data
    obs,            \* what the two downloads return: the observation days of every column
    df_macro,       \* the frame `df_macro`
    df_assets,      \* the frame `df_assets`
    df_all,         \* the frame `df_all`: cells carry their value and the day it was observed
    pcG,            \* "fetch", "derive", "fiscal", "net", "done"; "idle" elsewhere
    \* ---- app.py: get_market_data(single_dict, basket_dict)
    single_dict,    \* the names of the first argument
    basket_dict,    \* the names of the second argument
    net_ok,         \* whether yf.download succeeds
    all_tickers,    \* the list `all_tickers`
    app_df,         \* the entities with records in the returned frame
    pcP             \* "script", "call", "download", "line103", "returned", "raised"; "idle" elsewhere

varsT == <<df, pcT, ti, frames>>
varsA == <<now, data, todo, cur, di, processed_dfs, full_df, pcA, lookups>>
varsS == <<engine, raw_data, pool, pi, spy_mom20, pcS, metrics>>
varsC == <<bias, structure>>
varsR == <<first_df, run_no>>
varsG == <<obs, df_macro, df_assets, df_all, pcG>>
varsP == <<single_dict, basket_dict, net_ok, all_tickers, app_df, pcP>>
vars == <<varsT, varsA, varsS, varsC, varsR, varsG, varsP>>

(***************************************************************************)
(* Floating point values: exact rationals n/d (d > 0, lowest terms), NaN,  *)
(* and +-inf (k = "inf", n = +1 or -1).                                    *)
(***************************************************************************)
Abs(x) == IF x < 0 THEN -x ELSE x
Sgn(x) == IF x > 0 THEN 1 ELSE IF x < 0 THEN -1 ELSE 0

RECURSIVE Gcd(_, _)
Gcd(a, b) == IF b = 0 THEN a ELSE Gcd(b, a % b)

NaN == [k |-> "nan", n |-> 0, d |-> 1]
Inf(s) == [k |-> "inf", n |-> s, d |-> 1]
Rat(n, d) ==
    LET g == Gcd(Abs(n), Abs(d))
        s == IF d < 0 THEN -1 ELSE 1
    IN  [k |-> "num", n |-> s * (n \div g), d |-> s * (d \div g)]
Num(x) == [k |-> "num", n |-> x, d |-> 1]

IsNaN(a) == a.k = "nan"
IsNum(a) == a.k = "num"
IsInf(a) == a.k = "inf"
FSgn(a) == Sgn(a.n)

\* IEEE comparisons: every comparison with NaN is false, except !=
FEq(a, b) == /\ ~IsNaN(a) /\ ~IsNaN(b)
             /\ a = b
FNe(a, b) == ~FEq(a, b)
FLt(a, b) ==
    /\ ~IsNaN(a) /\ ~IsNaN(b)
    /\ IF IsNum(a) /\ IsNum(b) THEN a.n * b.d < b.n * a.d
       ELSE IF IsInf(a) /\ IsInf(b) THEN a.n < b.n
       ELSE IF IsInf(a) THEN a.n < 0
       ELSE b.n > 0
FGt(a, b) == FLt(b, a)

FNeg(a) == IF IsNaN(a) THEN NaN ELSE [a EXCEPT !.n = -a.n]
FAbs(a) == IF IsNaN(a) THEN NaN ELSE [a EXCEPT !.n = Abs(a.n)]
FAdd(a, b) ==
    IF IsNaN(a) \/ IsNaN(b) THEN NaN
    ELSE IF IsInf(a) /\ IsInf(b) THEN (IF a.n = b.n THEN a ELSE NaN)
    ELSE IF IsInf(a) THEN a
    ELSE IF IsInf(b) THEN b
    ELSE Rat(a.n * b.d + b.n * a.d, a.d * b.d)
FSub(a, b) == FAdd(a, FNeg(b))
FMul(a, b) ==
    IF IsNaN(a) \/ IsNaN(b) THEN NaN
    ELSE IF IsInf(a) \/ IsInf(b)
         THEN (IF FSgn(a) * FSgn(b) = 0 THEN NaN ELSE Inf(FSgn(a) * FSgn(b)))
    ELSE Rat(a.n * b.n, a.d * b.d)
\* numpy float64 division: x/0 is +-inf, 0/0 is NaN (a warning, no exception)
FDiv(a, b) ==
    IF IsNaN(a) \/ IsNaN(b) THEN NaN
    ELSE IF IsInf(a) THEN (IF IsInf(b) THEN NaN
                           ELSE Inf(a.n * (IF b.n < 0 THEN -1 ELSE 1)))
    ELSE IF IsInf(b) THEN Num(0)
    ELSE IF b.n = 0 THEN (IF a.n = 0 THEN NaN ELSE Inf(Sgn(a.n)))
    ELSE Rat(a.n * b.d, a.d * b.n)
\* Python's max(0, x): x if x > 0 else 0
\* FMax0 without the clamp
FMax0Identity(a) == a

\* max(0, a)
FMax0(a) == IF FGt(a, Num(0)) THEN a ELSE Num(0)

(***************************************************************************)
(* Calendar: pandas 'W-FRI' bins.  A bin is labelled by its Friday and     *)
(* holds the days (label - 7, label].                                      *)
(***************************************************************************)
DaysPerWeek == 7
FriLabel(t) == t + ((DaysPerWeek - 1) - (t % DaysPerWeek))

RECURSIVE LabelsFrom(_, _)
LabelsFrom(l, last) == IF l > last THEN <<>> ELSE <<l>> \o LabelsFrom(l + DaysPerWeek, last)

\* s.iloc[-k:]
ILocTail(s, k) == IF Len(s) <= k THEN s ELSE SubSeq(s, Len(s) - k + 1, Len(s))

(***************************************************************************)
(* pages/2: the treemap of the liquidity time machine.                     *)
(* The table df has one row per day 0 .. NumDays-1; a column is a function *)
(* from the day to a float, NaN before the column's first value (the table *)
(* is forward-filled, so a column is NaN up to some day and defined after).*)
(***************************************************************************)
NumDays == 10
Days == 0 .. (NumDays - 1)

MacroCols == {"M0", "M1", "M2", "Fed_Assets", "TGA", "RRP"}
AssetCols == {"SPY", "TLT", "GLD", "BTC-USD", "USO"}

\* A column that is NaN before day `first` and a + s * t from then on.
Column(first, a, s) == [t \in Days |-> IF t < first THEN NaN ELSE Num(a + s * t)]
AllNaN == Column(NumDays, 0, 0)

\* The macro block comes from one FRED request: all of its columns or none.
MacroTables ==
    { [c \in MacroCols |->
          CASE c = "M0"         -> m0
            [] c = "M1"         -> m1
            [] c = "M2"         -> m2
            [] c = "Fed_Assets" -> Column(0, 8, 0)
            [] c = "TGA"        -> tga
            [] c = "RRP"        -> Column(0, 2, 0)] :
        m0  \in {Column(0, 5, 0), AllNaN},
        m1  \in {Column(0, 1, 1), Column(1, 12, -1)},
        m2  \in {Column(0, 6, 0), Column(8, 20, 0), AllNaN},
        tga \in {Column(0, 1, 0), Column(0, 3, -1)} }

\* The asset block comes from one yfinance request: a ticker that failed to
\* download is a column of NaN; the request raising leaves no asset column.
AssetShapes == {Column(0, 2, 1), Column(8, 3, 1), Column(0, NumDays - 1, -1), AllNaN}
AssetTables ==
    { [c \in AssetCols |->
          CASE c = "SPY"     -> spy
            [] c = "BTC-USD" -> btc
            [] c = "USO"     -> uso
            [] OTHER         -> Column(0, 4, 1)] :
        spy \in AssetShapes, btc \in AssetShapes, uso \in AssetShapes }

Merge(f, g) == [c \in (DOMAIN f) \cup (DOMAIN g) |-> IF c \in DOMAIN f THEN f[c] ELSE g[c]]
Empty == [c \in {} |-> AllNaN]

\* get_all_data, lines 67-69: Net_Liquidity exists iff its three inputs do.
WithNetLiquidity(t) ==
    IF {"Fed_Assets", "TGA", "RRP"} \subseteq DOMAIN t
    THEN Merge(t, [c \in {"Net_Liquidity"} |->
                    [d \in Days |-> FSub(FSub(t["Fed_Assets"][d], t["TGA"][d]), t["RRP"][d])]])
    ELSE t

Tables ==
    { WithNetLiquidity(Merge(m, a)) :
        m \in MacroTables \cup {Empty}, a \in AssetTables \cup {Empty} } \ {Empty}

ids == <<"root", "cat_source", "cat_valve", "cat_asset", "m0", "fed", "m2", "m1",
         "m2_other", "tga", "rrp", "spy", "tlt", "gld", "btc", "uso">>
parents == <<"", "root", "root", "root", "cat_source", "cat_source", "cat_source", "m2",
             "m2", "cat_valve", "cat_valve", "cat_asset", "cat_asset", "cat_asset",
             "cat_asset", "cat_asset">>

LATEST_CAPS == [c \in {"M2", "SPY", "TLT", "GLD", "BTC-USD", "USO"} |->
    CASE c = "M2" -> 22300 [] c = "SPY" -> 55000 [] c = "TLT" -> 52000
      [] c = "GLD" -> 14000 [] c = "BTC-USD" -> 2500 [] c = "USO" -> 2000]

WeeksShown == 52

\* df.resample('W-FRI').last(): per column the last non-NaN value of the bin
ResampleLast(col, label) ==
    LET valid == {t \in Days : t > label - DaysPerWeek /\ t <= label /\ ~IsNaN(col[t])}
    IN  IF valid = {} THEN NaN
        ELSE col[CHOOSE t \in valid : \A u \in valid : u <= t]

\* df_weekly.index and one of its rows
df_weekly_index(t) == ILocTail(LabelsFrom(FriLabel(0), FriLabel(NumDays - 1)), WeeksShown)
df_weekly_row(t, label) == [c \in DOMAIN t |-> ResampleLast(t[c], label)]
\* latest_row taken one row before the last
latest_row_prev(t) == [c \in DOMAIN t |-> t[c][NumDays - 2]]

\* latest_row = df.iloc[-1]
latest_row(t) == [c \in DOMAIN t |-> t[c][NumDays - 1]]

\* def get_val(col)
get_val(row, col) ==
    IF col \notin DOMAIN row THEN Num(0)        \* row.get(col) is None: pd.isna(None)
    ELSE IF IsNaN(row[col]) THEN Num(0)
    ELSE row[col]

\* get_asset_size without the price ratio
get_asset_size_unscaled(row, latest, col) ==
    Num(IF col \in DOMAIN LATEST_CAPS THEN LATEST_CAPS[col] ELSE 100)

\* def get_asset_size(col)
get_asset_size(row, latest, col) ==
    LET curr == get_val(row, col)
        last == IF col \in DOMAIN latest THEN latest[col] ELSE Num(1)
        base == Num(IF col \in DOMAIN LATEST_CAPS THEN LATEST_CAPS[col] ELSE 100)
    IN  IF FNe(last, Num(0)) THEN FMul(base, FDiv(curr, last)) ELSE base

\* the dict `vals` at line 126
Vals(row, latest) ==
    LET m0  == get_val(row, "M0")
        m1  == get_val(row, "M1")
        m2r == get_val(row, "M2")
        fed == get_val(row, "Fed_Assets")
        m2_other == FMax0(FSub(m2r, m1))
        m2  == FAdd(m1, m2_other)
        tga == FAbs(get_val(row, "TGA"))
        rrp == FAbs(get_val(row, "RRP"))
        spy == get_asset_size(row, latest, "SPY")
        tlt == get_asset_size(row, latest, "TLT")
        gld == get_asset_size(row, latest, "GLD")
        btc == get_asset_size(row, latest, "BTC-USD")
        uso == get_asset_size(row, latest, "USO")
        cat_source == FAdd(FAdd(m0, fed), m2)
        cat_valve  == FAdd(tga, rrp)
        cat_asset  == FAdd(FAdd(FAdd(FAdd(spy, tlt), gld), btc), uso)
        root == FAdd(FAdd(cat_source, cat_valve), cat_asset)
    IN  [root |-> root, cat_source |-> cat_source, cat_valve |-> cat_valve,
         cat_asset |-> cat_asset, m0 |-> m0, fed |-> fed, m2 |-> m2, m1 |-> m1,
         m2_other |-> m2_other, tga |-> tga, rrp |-> rrp, spy |-> spy, tlt |-> tlt,
         gld |-> gld, btc |-> btc, uso |-> uso]

\* BuildFrame as it would be if a frame listed only the nodes that have a value
BuildFrameSparse(label, row, latest) ==
    LET vals == Vals(row, latest)
        keep == {i \in 1 .. Len(ids) : FNe(vals[ids[i]], Num(0))}
        RECURSIVE Pick(_)
        Pick(i) == IF i > Len(ids) THEN <<>>
                   ELSE (IF i \in keep THEN <<i>> ELSE <<>>) \o Pick(i + 1)
        idx == Pick(1)
    IN  [name |-> label,
         ids |-> [j \in 1 .. Len(idx) |-> ids[idx[j]]],
         parents |-> [j \in 1 .. Len(idx) |-> parents[idx[j]]],
         values |-> [j \in 1 .. Len(idx) |-> vals[ids[idx[j]]]]]

\* go.Frame(name=date_str, data=[go.Treemap(ids=ids, parents=parents, values=final_values)])
BuildFrame(label, row, latest) ==
    LET vals == Vals(row, latest)
    IN  [name |-> label, ids |-> ids, parents |-> parents,
         values |-> [i \in 1 .. Len(ids) |-> vals[ids[i]]]]

IdleA == /\ now = 0 /\ data = <<>> /\ todo = {} /\ cur = "" /\ di = 0
         /\ processed_dfs = <<>> /\ full_df = <<>> /\ pcA = "idle" /\ lookups = {}
IdleS == /\ engine = "idle" /\ raw_data = <<>> /\ pool = <<>> /\ pi = 0
         /\ spy_mom20 = NaN /\ pcS = "idle" /\ metrics = <<>>
IdleT == /\ df = <<>> /\ pcT = "idle" /\ ti = 0 /\ frames = <<>>
IdleC == /\ bias = <<>> /\ structure = ""
IdleR == /\ first_df = <<>> /\ run_no = 0
IdleG == /\ obs = <<>> /\ df_macro = <<>> /\ df_assets = <<>> /\ df_all = <<>> /\ pcG = "idle"
IdleP == /\ single_dict = {} /\ basket_dict = {} /\ net_ok = FALSE /\ all_tickers = {}
         /\ app_df = {} /\ pcP = "idle"
IdleN == IdleR /\ IdleG /\ IdleP

InitTree ==
    /\ df \in Tables
    /\ pcT = "gate"
    /\ ti = 1
    /\ frames = <<>>
    /\ IdleA /\ IdleS /\ IdleC /\ IdleN

\* line 76: if not df.empty and 'Net_Liquidity' in df.columns
GateOpen ==
    /\ pcT = "gate"
    /\ "Net_Liquidity" \in DOMAIN df
    /\ pcT' = "loop"
    /\ UNCHANGED <<df, ti, frames, varsA, varsS, varsC, varsR, varsG, varsP>>

GateClosed ==
    /\ pcT = "gate"
    /\ "Net_Liquidity" \notin DOMAIN df
    /\ pcT' = "nopage"
    /\ UNCHANGED <<df, ti, frames, varsA, varsS, varsC, varsR, varsG, varsP>>

\* lines 97-130: one iteration of `for date in df_weekly.index`
FrameStep ==
    /\ pcT = "loop"
    /\ ti <= Len(df_weekly_index(df))
    /\ LET label == df_weekly_index(df)[ti]
       IN  frames' = Append(frames, BuildFrame(label, df_weekly_row(df, label), latest_row(df)))
    /\ ti' = ti + 1
    /\ UNCHANGED <<df, pcT, varsA, varsS, varsC, varsR, varsG, varsP>>

FramesDone ==
    /\ pcT = "loop"
    /\ ti > Len(df_weekly_index(df))
    /\ pcT' = "done"
    /\ UNCHANGED <<df, ti, frames, varsA, varsS, varsC, varsR, varsG, varsP>>

NextTree == GateOpen \/ GateClosed \/ FrameStep \/ FramesDone
SpecTree == InitTree /\ [][NextTree]_vars

(***************************************************************************)
(* Claims about the treemap (SpecTree).                                    *)
(***************************************************************************)
Value(f, id) == f.values[CHOOSE i \in 1 .. Len(f.ids) : f.ids[i] = id]
ChildIdx(f, id) == {i \in 1 .. Len(f.ids) : f.parents[i] = id}

RECURSIVE SumValues(_, _)
SumValues(f, is) ==
    IF is = {} THEN Num(0)
    ELSE LET i == CHOOSE j \in is : \A k \in is : j <= k
         IN  FAdd(f.values[i], SumValues(f, is \ {i}))

FrameSet == {frames[i] : i \in 1 .. Len(frames)}
NoSeries(c) == c \notin DOMAIN df \/ \A t \in Days : IsNaN(df[c][t])

\* C1 (as claimed): in every frame, every internal node's value equals the sum
\* of the values of its direct children.
C1_Conservation ==
    \A f \in FrameSet : \A i \in 1 .. Len(f.ids) :
        ChildIdx(f, f.ids[i]) # {} =>
            FEq(f.values[i], SumValues(f, ChildIdx(f, f.ids[i])))

\* C2: every frame of the series carries the same node ids with the same
\* parent of each, the 16 nodes of the schema, and one value per node.
C2_SchemaStable ==
    \A f \in FrameSet :
        /\ f.ids = ids
        /\ f.parents = parents
        /\ DOMAIN f.values = DOMAIN f.ids
        /\ \A g \in FrameSet : {<<f.ids[i], f.parents[i]>> : i \in DOMAIN f.ids}
                                = {<<g.ids[i], g.parents[i]>> : i \in DOMAIN g.ids}

\* C2 witness: a finished series of at least two frames over a table in which
\* one asset has no series and another has no value yet on the first date.
C2_Witness ==
    /\ pcT = "done"
    /\ Len(frames) >= 2
    /\ \E c \in AssetCols : NoSeries(c)
    /\ \E c \in AssetCols \cap DOMAIN df : IsNaN(df[c][0]) /\ ~IsNaN(df[c][NumDays - 1])

LeafColumn == [m0 |-> "M0", fed |-> "Fed_Assets", m1 |-> "M1", tga |-> "TGA", rrp |-> "RRP",
               spy |-> "SPY", tlt |-> "TLT", gld |-> "GLD", btc |-> "BTC-USD", uso |-> "USO"]

\* C3 (as claimed): a leaf whose entity has no series in the table (column
\* absent, or without any value) is in every frame with value exactly 0.
C3_MissingLeafZero ==
    \A f \in FrameSet : \A id \in DOMAIN LeafColumn :
        NoSeries(LeafColumn[id]) =>
            /\ \E i \in 1 .. Len(f.ids) : f.ids[i] = id
            /\ FEq(Value(f, id), Num(0))

(***************************************************************************)
(* my_stock_pool.py (and the same loop in app.py): get_market_data, the    *)
(* animated radar.  A series is the sequence of the ticker's Close         *)
(* observations [day, px] in date order, NaN rows dropped, at most one per *)
(* calendar day.                                                           *)
(***************************************************************************)
rolling_window == 252
MinExtra == 20
HistoryDays == 912
DisplayDays == 365
LookbackDays == 28
SnapHistoryDays == 730
SnapWindow == 250
SnapLookback == 21

NowDay == 1000
GapLen == 40
GapAge == 150

\* PORTFOLIO_CONFIG, cut down to two of its tickers: COST, listed in sections
\* A and B, and LMT, listed in sections A and C.  A section is named by the first word of its key.
PORTFOLIO_CONFIG == << [section |-> "A", tickers |-> {"COST", "LMT"}],
                       [section |-> "B", tickers |-> {"COST"}],
                       [section |-> "C", tickers |-> {"LMT"}] >>

get_unique_tickers == UNION {PORTFOLIO_CONFIG[i].tickers : i \in 1 .. Len(PORTFOLIO_CONFIG)}

\* get_category_label without reversed(): the first section listing the ticker
get_category_label_first(ticker) ==
    LET hits == {i \in 1 .. Len(PORTFOLIO_CONFIG) : ticker \in PORTFOLIO_CONFIG[i].tickers}
    IN  IF hits = {} THEN "Other"
        ELSE PORTFOLIO_CONFIG[CHOOSE i \in hits : \A j \in hits : i <= j].section

get_category_label(ticker) ==
    LET hits == {i \in 1 .. Len(PORTFOLIO_CONFIG) : ticker \in PORTFOLIO_CONFIG[i].tickers}
    IN  IF hits = {} THEN "Other"
        ELSE PORTFOLIO_CONFIG[CHOOSE i \in hits : \A j \in hits : j <= i].section

\* ---- the downloaded series the model is run on
\* shape: cal (5 or 7 observation days a week), first (day of the first
\* observation), gap (a suspension of GapLen days), pat (the price path)
IsObs(p, nw, d) ==
    /\ d >= p.first
    /\ p.cal = 7 \/ (d % DaysPerWeek) \notin {0, 1}
    /\ ~(p.gap /\ d >= nw - GapAge /\ d < nw - GapAge + GapLen)

PriceOn(p, nw, d) ==
    LET rise == 10 + ((d - (nw - HistoryDays)) \div 30)
    IN  CASE p.pat = "flat"     -> 50
          [] p.pat = "rise"     -> rise
          [] p.pat = "zero"     -> IF d >= nw - 80 /\ d < nw - 70 THEN 0 ELSE rise
          [] p.pat = "zero21"   -> IF d >= nw - 30 /\ d < nw - 18 THEN 0 ELSE rise
          [] p.pat = "flatrise" -> IF d < nw - 230 THEN 50 ELSE 50 + (d - (nw - 230))
          [] p.pat = "climb"    -> 100 + (d - (nw - HistoryDays))
          [] p.pat = "accel"    -> 10 + (d - (nw - HistoryDays))
                                      + (((d - (nw - HistoryDays)) * (d - (nw - HistoryDays))) \div 2000)
          [] p.pat = "fall"     -> 1100 - (d - (nw - HistoryDays))
          [] p.pat = "dip"      -> IF d < nw - 10 THEN 100 + (d - (nw - HistoryDays))
                                   ELSE 100 + ((nw - 10) - (nw - HistoryDays)) - 4 * (d - (nw - 10))
          [] p.pat = "bounce"   -> IF d < nw - 10 THEN 1100 - (d - (nw - HistoryDays))
                                   ELSE 1100 - ((nw - 10) - (nw - HistoryDays)) + 4 * (d - (nw - 10))

RECURSIVE MakeSeries(_, _, _, _)
MakeSeries(p, nw, lo, hi) ==
    IF lo > hi THEN <<>>
    ELSE IF lo = hi
         THEN (IF IsObs(p, nw, lo) THEN <<[day |-> lo, px |-> PriceOn(p, nw, lo)]>> ELSE <<>>)
    ELSE LET mid == (lo + hi) \div 2
         IN  MakeSeries(p, nw, lo, mid) \o MakeSeries(p, nw, mid + 1, hi)

Download(p, nw) == MakeSeries(p, nw, nw - HistoryDays, nw - 1)
DownloadSnap(p, nw) == MakeSeries(p, nw, nw - SnapHistoryDays, nw - 1)

Ages == {HistoryDays, 420, 300}
Shapes(nw) == {[cal |-> c, first |-> nw - a, gap |-> g, pat |-> q] :
                 c \in {5, 7}, a \in Ages, g \in BOOLEAN,
                 q \in {"flat", "rise", "zero", "flatrise"}}
FewShapes(nw) == {[cal |-> 5, first |-> nw - HistoryDays, gap |-> FALSE, pat |-> "rise"],
                  [cal |-> 7, first |-> nw - 300, gap |-> FALSE, pat |-> "flatrise"]}

\* ---- pandas on a series
\* s.index.searchsorted(x): the number of observations dated before x
RECURSIVE Bisect(_, _, _, _, _)
Bisect(s, x, lo, hi, right) ==
    IF lo >= hi THEN lo
    ELSE LET mid == (lo + hi) \div 2
             below == IF right THEN s[mid + 1].day <= x ELSE s[mid + 1].day < x
         IN  IF below THEN Bisect(s, x, mid + 1, hi, right) ELSE Bisect(s, x, lo, mid, right)

searchsorted(s, x) == Bisect(s, x, 0, Len(s), FALSE)

\* len(s.loc[:date]): the number of observations dated at or before date
CountUpTo(s, date) == Bisect(s, date, 0, Len(s), TRUE)

\* s.resample('W-FRI').last().loc[label]: NaN for a week without observation
price_weekly(s, label) ==
    LET hi == CountUpTo(s, label)
    IN  IF hi >= 1 /\ s[hi].day > label - DaysPerWeek THEN Num(s[hi].px) ELSE NaN

\* price_weekly[price_weekly.index >= target_start_date].index; end_date has a
\* time of day, so a Friday (midnight) qualifies when it is after the day now - 365
display_dates(s, nw) ==
    LET lo == FriLabel(s[1].day)
        hi == FriLabel(s[Len(s)].day)
        from == IF lo > nw - DisplayDays THEN lo ELSE FriLabel(nw - DisplayDays + 1)
        count == IF from > hi THEN 0 ELSE ((hi - from) \div DaysPerWeek) + 1
    IN  [i \in 1 .. count |-> from + DaysPerWeek * (i - 1)]

\* series_price.loc[:date].tail(rolling_window), as the index range lo .. hi
WindowHi(s, date) == CountUpTo(s, date)
\* WindowLo for a window of 330 calendar days instead of 252 observations
WindowLoCalendar(s, date) == searchsorted(s, date - 330) + 1

WindowLo(s, date) == IF WindowHi(s, date) > rolling_window
                     THEN WindowHi(s, date) - rolling_window + 1 ELSE 1
WindowLen(s, date) == WindowHi(s, date) - WindowLo(s, date) + 1

RECURSIVE SumPx(_, _, _)
SumPx(s, lo, hi) ==
    IF lo > hi THEN 0
    ELSE IF lo = hi THEN s[lo].px
    ELSE LET mid == (lo + hi) \div 2
         IN  SumPx(s, lo, mid) + SumPx(s, mid + 1, hi)

\* window_price.std() == 0: at least two values, all the same
StdIsZero(s, lo, hi) == hi > lo /\ \A i \in lo .. hi : s[i].px = s[lo].px

\* round(x, 2), half to even
Round2(f) ==
    IF ~IsNum(f) THEN f
    ELSE LET y == 100 * f.n
             q == y \div f.d
             r == y - q * f.d
             up == 2 * r > f.d \/ (2 * r = f.d /\ q % 2 = 1)
         IN  Rat(IF up THEN q + 1 ELSE q, 100)

\* TooShort as it would be without the check
TooShortNever(len) == FALSE

\* TooShort as it would be with half the window as the floor
TooShortHalf(len) == 10 * len < 5 * rolling_window

\* line 75: if len(window_price) < rolling_window * 0.9: continue
TooShort(len) == 10 * len < 9 * rolling_window

\* lines 85-92: the momentum lookback; idx is what searchsorted returned
Momentum(s, idx, price_val) ==
    IF idx < Len(s) /\ idx >= 0
    THEN LET price_prev == Num(s[idx + 1].px)
         IN  IF FGt(price_prev, Num(0))
             THEN FMul(FDiv(FSub(price_val, price_prev), price_prev), Num(100))
             ELSE Num(0)
    ELSE Num(0)

\* lines 77-101: the record of (ticker, date).  Z-Score is kept as
\* price_val - p_mean, i.e. in units of p_std (> 0 here): same sign, same zero.
Record(ticker, s, date) ==
    LET lo == WindowLo(s, date)
        hi == WindowHi(s, date)
        p_mean == Rat(SumPx(s, lo, hi), hi - lo + 1)
        price_val == price_weekly(s, date)
        idx == searchsorted(s, date - LookbackDays)
    IN  [Date |-> date, Ticker |-> ticker, Category |-> get_category_label(ticker),
         Z |-> FSub(price_val, p_mean),
         Momentum |-> Round2(Momentum(s, idx, price_val)),
         Price |-> Round2(price_val)]

\* the observation the lookback of (ticker, date) reads, if it reads one
Lookup(ticker, s, date) ==
    LET idx == searchsorted(s, date - LookbackDays)
    IN  IF idx < Len(s) /\ idx >= 0
        THEN {[Ticker |-> ticker, Date |-> date, obs |-> s[idx + 1].day]}
        ELSE {}

RECURSIVE SortedSeq(_)
SortedSeq(S) == IF S = {} THEN <<>>
                ELSE LET m == CHOOSE x \in S : \A y \in S : x <= y
                     IN  <<m>> \o SortedSeq(S \ {m})

\* full_df.sort_values(by="Date"): the order among records of one Date is not
\* fixed by the sort, so the frame is kept as the Date-ordered list of groups
SortByDate(recs) ==
    LET dates == SortedSeq({recs[i].Date : i \in 1 .. Len(recs)})
    IN  [k \in 1 .. Len(dates) |-> {recs[i] : i \in {j \in 1 .. Len(recs) : recs[j].Date = dates[k]}}]

InitAnim ==
    /\ now = NowDay
    /\ \E p \in Shapes(NowDay) :
          \/ data = [t \in {"COST"} |-> Download(p, NowDay)]
          \/ \E q \in FewShapes(NowDay) :
                data = [t \in {"COST", "LMT"} |->
                          IF t = "COST" THEN Download(p, NowDay) ELSE Download(q, NowDay)]
    /\ todo = get_unique_tickers
    /\ cur = ""
    /\ di = 0
    /\ processed_dfs = <<>>
    /\ full_df = <<>>
    /\ pcA = "run"
    /\ lookups = {}
    /\ IdleT /\ IdleS /\ IdleC /\ IdleN

\* Continue as it would be if the failure of one ticker ended the outer loop
ContinueNone(rest, t) == {}

\* `continue` in the body of `for ticker in tickers` (lines 55, 59, 102-103):
\* the loop goes on with the tickers that remain
Continue(rest, t) == rest \ {t}

\* lines 51-55: data[ticker] is not there: the except clause goes to the next ticker
TickerMissing ==
    /\ pcA = "run" /\ cur = ""
    /\ \E t \in todo :
          /\ t \notin DOMAIN data
          /\ todo' = Continue(todo, t)
    /\ UNCHANGED <<now, data, cur, di, processed_dfs, full_df, pcA, lookups, varsT, varsS, varsC, varsR, varsG, varsP>>

\* line 59: if len(df) < rolling_window + 20: continue
TickerShort ==
    /\ pcA = "run" /\ cur = ""
    /\ \E t \in todo :
          /\ t \in DOMAIN data
          /\ Len(data[t]) < rolling_window + MinExtra
          /\ todo' = Continue(todo, t)
    /\ UNCHANGED <<now, data, cur, di, processed_dfs, full_df, pcA, lookups, varsT, varsS, varsC, varsR, varsG, varsP>>

TickerStart ==
    /\ pcA = "run" /\ cur = ""
    /\ \E t \in todo :
          /\ t \in DOMAIN data
          /\ Len(data[t]) >= rolling_window + MinExtra
          /\ todo' = todo \ {t}
          /\ cur' = t
    /\ di' = 1
    /\ UNCHANGED <<now, data, processed_dfs, full_df, pcA, lookups, varsT, varsS, varsC, varsR, varsG, varsP>>

AtDate == cur # "" /\ pcA = "run" /\ di <= Len(display_dates(data[cur], now))
CurDate == display_dates(data[cur], now)[di]

\* line 75
SkipHistory ==
    /\ AtDate
    /\ TooShort(WindowLen(data[cur], CurDate))
    /\ di' = di + 1
    /\ UNCHANGED <<now, data, todo, cur, processed_dfs, full_df, pcA, lookups, varsT, varsS, varsC, varsR, varsG, varsP>>

\* line 79: if p_std == 0: continue
SkipFlat ==
    /\ AtDate
    /\ ~TooShort(WindowLen(data[cur], CurDate))
    /\ StdIsZero(data[cur], WindowLo(data[cur], CurDate), WindowHi(data[cur], CurDate))
    /\ di' = di + 1
    /\ UNCHANGED <<now, data, todo, cur, processed_dfs, full_df, pcA, lookups, varsT, varsS, varsC, varsR, varsG, varsP>>

\* Emit with the category carried over from the record appended before
EmitCarry ==
    /\ AtDate
    /\ ~TooShort(WindowLen(data[cur], CurDate))
    /\ ~StdIsZero(data[cur], WindowLo(data[cur], CurDate), WindowHi(data[cur], CurDate))
    /\ LET r == Record(cur, data[cur], CurDate)
       IN  processed_dfs' = Append(processed_dfs,
               IF processed_dfs = <<>> THEN r
               ELSE [r EXCEPT !.Category = processed_dfs[Len(processed_dfs)].Category])
    /\ lookups' = lookups \cup Lookup(cur, data[cur], CurDate)
    /\ di' = di + 1
    /\ UNCHANGED <<now, data, todo, cur, full_df, pcA, varsT, varsS, varsC, varsR, varsG, varsP>>

\* lines 81-101
Emit ==
    /\ AtDate
    /\ ~TooShort(WindowLen(data[cur], CurDate))
    /\ ~StdIsZero(data[cur], WindowLo(data[cur], CurDate), WindowHi(data[cur], CurDate))
    /\ processed_dfs' = Append(processed_dfs, Record(cur, data[cur], CurDate))
    /\ lookups' = lookups \cup Lookup(cur, data[cur], CurDate)
    /\ di' = di + 1
    /\ UNCHANGED <<now, data, todo, cur, full_df, pcA, varsT, varsS, varsC, varsR, varsG, varsP>>

TickerDone ==
    /\ pcA = "run" /\ cur # ""
    /\ di > Len(display_dates(data[cur], now))
    /\ cur' = ""
    /\ di' = 0
    /\ UNCHANGED <<now, data, todo, processed_dfs, full_df, pcA, lookups, varsT, varsS, varsC, varsR, varsG, varsP>>

\* lines 105-108
Return ==
    /\ pcA = "run" /\ cur = "" /\ todo = {}
    /\ full_df' = SortByDate(processed_dfs)
    /\ pcA' = "done"
    /\ UNCHANGED <<now, data, todo, cur, di, processed_dfs, lookups, varsT, varsS, varsC, varsR, varsG, varsP>>

NextAnim == TickerMissing \/ TickerShort \/ TickerStart \/ SkipHistory \/ SkipFlat
            \/ Emit \/ TickerDone \/ Return
SpecAnim == InitAnim /\ [][NextAnim]_vars

(***************************************************************************)
(* pages/0 and pages/1: calculate_metrics; pages/3:                        *)
(* calculate_scanner_metrics.  One record per (group, ticker) of the pool, *)
(* computed at the last observation of the ticker's series.                *)
(***************************************************************************)
Absent == [k |-> "absent", n |-> 0, d |-> 1]

\* s.iloc[-k]
ILocBack(s, k) == s[Len(s) - k + 1]

\* (curr / df_t.iloc[-21] - 1) * 100
Mom20(s) ==
    FMul(FSub(FDiv(Num(ILocBack(s, 1).px), Num(ILocBack(s, SnapLookback).px)), Num(1)),
         Num(100))

\* the days of the two observations Mom20 reads: s.iloc[-21] and s.iloc[-1]
Mom20Span(s) == [from |-> ILocBack(s, SnapLookback).day, to |-> ILocBack(s, 1).day]

\* Benchmark without the fallback of the except clause
BenchmarkNoFallback(raw) ==
    IF "SPY" \in DOMAIN raw /\ Len(raw["SPY"]) >= SnapLookback
    THEN Mom20(raw["SPY"])
    ELSE NaN

\* lines 78-85 (pages/0), 52-61 (pages/1): any exception leaves 0
Benchmark(raw) ==
    IF "SPY" \in DOMAIN raw /\ Len(raw["SPY"]) >= SnapLookback
    THEN Mom20(raw["SPY"])
    ELSE Num(0)

\* z_score = (curr - ma250) / std250 if std250 != 0 else 0, in units of std250
SnapZ(s) ==
    LET hi == Len(s)
        lo == hi - SnapWindow + 1
    IN  IF StdIsZero(s, lo, hi) THEN Num(0)
        ELSE FSub(Num(s[hi].px), Rat(SumPx(s, lo, hi), SnapWindow))

\* line 96 (pages/0), 75 (pages/1), 66 (pages/3): if len(df_t) < 250: continue
SnapTooShort(len) == len < SnapWindow

\* ---- the EMA system (pages/0 lines 110-138, pages/1 lines 90-112)
\* An average is held in fixed point, as a whole number of 1/Precision.
Precision == 1000
SpanS == 20
SpanM == 60
SpanL == 120
SpanVL == 200
EmaBlock == 32

RoundDiv(n, d) == (2 * n + d) \div (2 * d)

\* EmaStep with an average that never moves from the first price
EmaStepFrozen(e, v, span) == e

\* one step of ewm(span, adjust=False).mean(): alpha = 2 / (span + 1), and an
\* observation equal to the average leaves it as it is
EmaStep(e, v, span) ==
    IF e = v * Precision THEN e
    ELSE RoundDiv(2 * v * Precision + (span - 1) * e, span + 1)

RECURSIVE EmaRun(_, _, _, _, _)
EmaRun(e, s, i, hi, span) ==
    IF i > hi THEN e ELSE EmaRun(EmaStep(e, s[i].px, span), s, i + 1, hi, span)

\* the steps over s[i ..], taken EmaBlock observations at a time
RECURSIVE EmaFrom(_, _, _, _)
EmaFrom(e, s, i, span) ==
    IF i > Len(s) THEN e
    ELSE LET hi == IF i + EmaBlock - 1 > Len(s) THEN Len(s) ELSE i + EmaBlock - 1
             v == EmaRun(e, s, i, hi, span)
         IN  IF v = e /\ hi = Len(s) THEN v ELSE EmaFrom(v, s, hi + 1, span)

\* df_t.ewm(span=span, adjust=False).mean().iloc[-1]
Ema(s, span) == EmaFrom(s[1].px * Precision, s, 2, span)

\* (a - b) / b * 100, a and b in fixed point
Bias(a, b) == FMul(FDiv(Num(a - b), Num(b)), Num(100))

\* the four biases of a series at its last observation
Biases(s) ==
    LET curr == ILocBack(s, 1).px * Precision
        ema20 == Ema(s, SpanS)
        ema60 == Ema(s, SpanM)
        ema120 == Ema(s, SpanL)
        ema200 == Ema(s, SpanVL)
    IN  [c_s |-> Bias(curr, ema20), s_m |-> Bias(ema20, ema60),
         m_l |-> Bias(ema60, ema120), l_vl |-> Bias(ema120, ema200)]

\* Structure with the medium bias left out of the two perfect alignments
StructureLoose(b) ==
    IF FGt(b.c_s, Num(0)) /\ FGt(b.s_m, Num(0)) /\ FGt(b.l_vl, Num(0))
    THEN "strong_uptrend"
    ELSE IF FLt(b.c_s, Num(0)) /\ FLt(b.s_m, Num(0)) /\ FLt(b.l_vl, Num(0))
    THEN "strong_downtrend"
    ELSE IF FGt(b.l_vl, Num(0))
    THEN (IF FLt(b.c_s, Num(0)) THEN "bull_pullback" ELSE "long_term_bullish")
    ELSE IF FLt(b.l_vl, Num(0))
    THEN (IF FGt(b.c_s, Num(0)) THEN "bear_bounce" ELSE "long_term_bearish")
    ELSE "choppy"

\* Structure with the pullback and the bounce read off S/M instead of C/S
StructureMid(b) ==
    IF FGt(b.c_s, Num(0)) /\ FGt(b.s_m, Num(0)) /\ FGt(b.m_l, Num(0)) /\ FGt(b.l_vl, Num(0))
    THEN "strong_uptrend"
    ELSE IF FLt(b.c_s, Num(0)) /\ FLt(b.s_m, Num(0)) /\ FLt(b.m_l, Num(0)) /\ FLt(b.l_vl, Num(0))
    THEN "strong_downtrend"
    ELSE IF FGt(b.l_vl, Num(0))
    THEN (IF FLt(b.s_m, Num(0)) THEN "bull_pullback" ELSE "long_term_bullish")
    ELSE IF FLt(b.l_vl, Num(0))
    THEN (IF FGt(b.s_m, Num(0)) THEN "bear_bounce" ELSE "long_term_bearish")
    ELSE "choppy"

\* Structure with any zero bias sent to the default
StructureTies(b) ==
    IF FEq(b.c_s, Num(0)) \/ FEq(b.s_m, Num(0)) \/ FEq(b.m_l, Num(0)) \/ FEq(b.l_vl, Num(0))
    THEN "choppy"
    ELSE
    IF FGt(b.c_s, Num(0)) /\ FGt(b.s_m, Num(0)) /\ FGt(b.m_l, Num(0)) /\ FGt(b.l_vl, Num(0))
    THEN "strong_uptrend"
    ELSE IF FLt(b.c_s, Num(0)) /\ FLt(b.s_m, Num(0)) /\ FLt(b.m_l, Num(0)) /\ FLt(b.l_vl, Num(0))
    THEN "strong_downtrend"
    ELSE IF FGt(b.l_vl, Num(0))
    THEN (IF FLt(b.c_s, Num(0)) THEN "bull_pullback" ELSE "long_term_bullish")
    ELSE IF FLt(b.l_vl, Num(0))
    THEN (IF FGt(b.c_s, Num(0)) THEN "bear_bounce" ELSE "long_term_bearish")
    ELSE "choppy"

\* pages/0 lines 127-138, pages/1 lines 102-112: the label `structure`, under
\* the names of the states: strong_uptrend, strong_downtrend, bull_pullback,
\* long_term_bullish, bear_bounce, long_term_bearish, and choppy (the default)
Structure(b) ==
    IF FGt(b.c_s, Num(0)) /\ FGt(b.s_m, Num(0)) /\ FGt(b.m_l, Num(0)) /\ FGt(b.l_vl, Num(0))
    THEN "strong_uptrend"
    ELSE IF FLt(b.c_s, Num(0)) /\ FLt(b.s_m, Num(0)) /\ FLt(b.m_l, Num(0)) /\ FLt(b.l_vl, Num(0))
    THEN "strong_downtrend"
    ELSE IF FGt(b.l_vl, Num(0))
    THEN (IF FLt(b.c_s, Num(0)) THEN "bull_pullback" ELSE "long_term_bullish")
    ELSE IF FLt(b.l_vl, Num(0))
    THEN (IF FGt(b.c_s, Num(0)) THEN "bear_bounce" ELSE "long_term_bearish")
    ELSE "choppy"

\* the dict appended to `metrics`; a page that has no such column leaves it
\* Absent.  Biases keeps the four biases as computed, before the rounding of
\* the columns C/S, S/M, M/L and L/VL.
SnapRecord(eng, group, ticker, s, bench) ==
    LET abs_mom20 == Mom20(s)
        b == Biases(s)
    IN  [Ticker |-> ticker, Group |-> group,
         Z |-> SnapZ(s),
         Momentum |-> IF eng = "p0" THEN Absent ELSE Round2(abs_mom20),
         Rel |-> IF eng = "p3" THEN Absent ELSE Round2(FSub(abs_mom20, bench)),
         Biases |-> IF eng = "p3" THEN Absent ELSE b,
         Structure |-> IF eng = "p3" THEN "" ELSE Structure(b),
         CS |-> IF eng = "p3" THEN Absent ELSE Round2(b.c_s),
         SM |-> IF eng = "p3" THEN Absent ELSE Round2(b.s_m),
         ML |-> IF eng = "p3" THEN Absent ELSE Round2(b.m_l),
         LVL |-> IF eng = "p3" THEN Absent ELSE Round2(b.l_vl),
         Price |-> Round2(Num(ILocBack(s, 1).px))]

\* ---- inputs: the pool iterated and the table downloaded
SnapShapes(nw) == {[cal |-> c, first |-> nw - a, gap |-> FALSE, pat |-> q] :
                     c \in {5, 7}, a \in {SnapHistoryDays, 300},
                     q \in {"flat", "rise", "zero21", "climb", "accel", "fall", "dip", "bounce"}}
SpyShapes(nw) == {[cal |-> 5, first |-> nw - SnapHistoryDays, gap |-> FALSE, pat |-> "rise"],
                  [cal |-> 5, first |-> nw - 20, gap |-> FALSE, pat |-> "rise"]}

\* pages/3: the tickers get_structure_df reads, with one sector for the eleven
structure_tickers == {"SPY", "RSP"}
map_sector == {"XLK"}

\* ASSET_GROUPS and the ticker maps of pages/3 list a ticker once; MY_POOL
\* (pages/1) is the user's and may list one ticker in two groups.
Pools(eng) ==
    {<<[group |-> "A", ticker |-> "SPY"], [group |-> "A", ticker |-> "GLD"]>>,
     <<[group |-> "A", ticker |-> "GLD"], [group |-> "B", ticker |-> "UUP"]>>}
    \cup (IF eng = "p1"
          THEN {<<[group |-> "A", ticker |-> "GLD"], [group |-> "B", ticker |-> "GLD"]>>}
          ELSE {})

InitSnap ==
    /\ engine \in {"p0", "p1", "p3"}
    /\ pool \in Pools(engine)
    /\ \E p \in SnapShapes(NowDay) :
          \/ raw_data = [t \in {"GLD"} |-> DownloadSnap(p, NowDay)]
          \/ \E q \in SpyShapes(NowDay) :
                raw_data = [t \in {"GLD", "SPY"} |->
                              IF t = "GLD" THEN DownloadSnap(p, NowDay)
                              ELSE DownloadSnap(q, NowDay)]
          \/ /\ engine = "p3"
             /\ \E q \in SpyShapes(NowDay) :
                   raw_data = [t \in {"GLD"} \cup structure_tickers \cup map_sector |->
                                 IF t = "GLD" THEN DownloadSnap(p, NowDay)
                                 ELSE DownloadSnap(q, NowDay)]
    /\ pi = 1
    /\ spy_mom20 = NaN
    /\ pcS = "bench"
    /\ metrics = <<>>
    /\ IdleT /\ IdleA /\ IdleC /\ IdleN

\* pages/0 lines 78-85, pages/1 lines 52-61
SnapBenchmark ==
    /\ pcS = "bench"
    /\ engine # "p3"
    /\ spy_mom20' = Benchmark(raw_data)
    /\ pcS' = "loop"
    /\ UNCHANGED <<engine, raw_data, pool, pi, metrics, varsT, varsA, varsC, varsR, varsG, varsP>>

\* pages/3 lines 82-109: the page calls get_structure_df() before any scanner;
\* df_close['SPY'], df_close['RSP'] and df_close[sector_tickers] raise KeyError
\* for a ticker that is no column of raw_data, and nothing catches it
SnapStructure ==
    /\ pcS = "bench"
    /\ engine = "p3"
    /\ pcS' = IF structure_tickers \cup map_sector \subseteq DOMAIN raw_data
              THEN "loop" ELSE "raised"
    /\ UNCHANGED <<engine, raw_data, pool, pi, spy_mom20, metrics, varsT, varsA, varsC, varsR, varsG, varsP>>

AtEntry == pcS = "loop" /\ pi <= Len(pool)

\* ticker not in raw_data.columns.levels[0] (pages/0, 1); KeyError (pages/3)
SnapMissing ==
    /\ AtEntry
    /\ pool[pi].ticker \notin DOMAIN raw_data
    /\ pi' = pi + 1
    /\ UNCHANGED <<engine, raw_data, pool, spy_mom20, pcS, metrics, varsT, varsA, varsC, varsR, varsG, varsP>>

SnapShort ==
    /\ AtEntry
    /\ pool[pi].ticker \in DOMAIN raw_data
    /\ SnapTooShort(Len(raw_data[pool[pi].ticker]))
    /\ pi' = pi + 1
    /\ UNCHANGED <<engine, raw_data, pool, spy_mom20, pcS, metrics, varsT, varsA, varsC, varsR, varsG, varsP>>

SnapEmit ==
    /\ AtEntry
    /\ pool[pi].ticker \in DOMAIN raw_data
    /\ ~SnapTooShort(Len(raw_data[pool[pi].ticker]))
    /\ metrics' = Append(metrics, SnapRecord(engine, pool[pi].group, pool[pi].ticker,
                                             raw_data[pool[pi].ticker], spy_mom20))
    /\ pi' = pi + 1
    /\ UNCHANGED <<engine, raw_data, pool, spy_mom20, pcS, varsT, varsA, varsC, varsR, varsG, varsP>>

SnapDone ==
    /\ pcS = "loop"
    /\ pi > Len(pool)
    /\ pcS' = "done"
    /\ UNCHANGED <<engine, raw_data, pool, pi, spy_mom20, metrics, varsT, varsA, varsC, varsR, varsG, varsP>>

NextSnap == SnapBenchmark \/ SnapStructure \/ SnapMissing \/ SnapShort \/ SnapEmit \/ SnapDone
SpecSnap == InitSnap /\ [][NextSnap]_vars

(***************************************************************************)
(* The structure classification as a function of four biases of any sign, *)
(* NaN (0 / 0) included.                                                   *)
(***************************************************************************)
BiasValues == {Num(-1), Num(0), Num(1), NaN}

InitTrend ==
    /\ bias \in [{"c_s", "s_m", "m_l", "l_vl"} -> BiasValues]
    /\ structure = ""
    /\ IdleT /\ IdleA /\ IdleS /\ IdleN

Classify ==
    /\ bias # <<>>
    /\ structure = ""
    /\ structure' = Structure(bias)
    /\ UNCHANGED <<bias, varsT, varsA, varsS, varsR, varsG, varsP>>

NextTrend == Classify
SpecTrend == InitTrend /\ [][NextTrend]_vars

\* Either radar engine, started on its own inputs.
InitRadar == InitAnim \/ InitSnap
NextRadar == NextAnim \/ NextSnap
SpecRadar == InitRadar /\ [][NextRadar]_vars

\* Either loop that builds its output one item at a time: the radar engine
\* over (ticker, date), in any order of the tickers, or the treemap over dates.
InitLoops == InitAnim \/ InitTree
NextLoops == NextAnim \/ NextTree
SpecLoops == InitLoops /\ [][NextLoops]_vars

\* Either page that reads symbols by name: the treemap or a snapshot radar.
InitPages == InitTree \/ InitSnap
NextPages == NextTree \/ NextSnap
SpecPages == InitPages /\ [][NextPages]_vars

(***************************************************************************)
(* get_market_data called a second time (SpecRerun): the cache of          *)
(* st.cache_data has expired or was cleared, yf.download returns the same  *)
(* table, and datetime.now() has moved on by 0, 1 or 7 days.               *)
(***************************************************************************)
RerunDelays == {0, 1, 7}

\* my_stock_pool.py lines 36-49 / app.py lines 73-100, entered again
Rerun ==
    /\ pcA = "done" /\ run_no = 0
    /\ first_df' = full_df
    /\ run_no' = 1
    /\ \E k \in RerunDelays : now' = now + k
    /\ todo' = get_unique_tickers
    /\ cur' = ""
    /\ di' = 0
    /\ processed_dfs' = <<>>
    /\ full_df' = <<>>
    /\ pcA' = "run"
    /\ lookups' = {}
    /\ UNCHANGED <<data, varsT, varsS, varsC, varsG, varsP>>

InitRerun == InitAnim /\ DOMAIN data = {"COST"}
NextRerun == NextAnim \/ Rerun
SpecRerun == InitRerun /\ [][NextRerun]_vars

(***************************************************************************)
(* app.py: the page script and get_market_data(single_dict, basket_dict)   *)
(* up to the first statement it cannot get past (SpecApp).  Names of the   *)
(* module: ASSETS (line 13) and CUSTOM_BASKETS (line 65); no statement of  *)
(* the module or of its imports binds SINGLE_ASSETS.                       *)
(***************************************************************************)
\* lines 65-69, under short names: "Mag7", "Staples", "Junk"; two components each
CUSTOM_BASKETS == [Mag7 |-> {"NVDA", "AAPL"}, Staples |-> {"WMT", "COST"}, Junk |-> {"HYG", "JNK"}]
\* the names a caller may pass: single assets (name = ticker here) and baskets
SingleNames == {"SPY", "TLT", "HYG"}
\* the names the module binds
GlobalNames == {"ASSETS", "CUSTOM_BASKETS"}

\* a function called directly with its two arguments, or the script run from
\* the top (the call of line 202 is then the only one)
InitApp ==
    /\ \/ /\ pcP = "call"
          /\ single_dict \in SUBSET SingleNames
          /\ basket_dict \in SUBSET DOMAIN CUSTOM_BASKETS
       \/ /\ pcP = "script"
          /\ single_dict = {} /\ basket_dict = {}
    /\ net_ok \in BOOLEAN
    /\ all_tickers = {}
    /\ app_df = {}
    /\ IdleT /\ IdleA /\ IdleS /\ IdleC /\ IdleR /\ IdleG

\* line 202: get_market_data(SINGLE_ASSETS, CUSTOM_BASKETS); the first
\* argument is a name that is not bound: NameError before the call
ScriptCall ==
    /\ pcP = "script"
    /\ pcP' = IF "SINGLE_ASSETS" \in GlobalNames THEN "call" ELSE "raised"
    /\ UNCHANGED <<single_dict, basket_dict, net_ok, all_tickers, app_df,
                   varsT, varsA, varsS, varsC, varsR, varsG>>

\* lines 84-87
Collect ==
    /\ pcP = "call"
    /\ all_tickers' = single_dict \cup UNION {CUSTOM_BASKETS[b] : b \in basket_dict}
    /\ pcP' = "download"
    /\ UNCHANGED <<single_dict, basket_dict, net_ok, app_df,
                   varsT, varsA, varsS, varsC, varsR, varsG>>

\* lines 89-95: except: return pd.DataFrame()
DownloadFails ==
    /\ pcP = "download" /\ ~net_ok
    /\ app_df' = {}
    /\ pcP' = "returned"
    /\ UNCHANGED <<single_dict, basket_dict, net_ok, all_tickers,
                   varsT, varsA, varsS, varsC, varsR, varsG>>

\* lines 89-100
DownloadOk ==
    /\ pcP = "download" /\ net_ok
    /\ pcP' = "line103"
    /\ UNCHANGED <<single_dict, basket_dict, net_ok, all_tickers, app_df,
                   varsT, varsA, varsS, varsC, varsR, varsG>>

\* line 103: check_list = list(SINGLE_ASSETS.items()), outside any try:
\* NameError; lines 104-197 are not reached
CheckList ==
    /\ pcP = "line103"
    /\ pcP' = IF "SINGLE_ASSETS" \in GlobalNames THEN "loop" ELSE "raised"
    /\ UNCHANGED <<single_dict, basket_dict, net_ok, all_tickers, app_df,
                   varsT, varsA, varsS, varsC, varsR, varsG>>

NextApp == ScriptCall \/ Collect \/ DownloadFails \/ DownloadOk \/ CheckList
SpecApp == InitApp /\ [][NextApp]_vars

(***************************************************************************)
(* pages/2: get_all_data (SpecAlign).  A frame is [lo, hi, cell]: its rows *)
(* are the days lo .. hi (none when lo > hi) and cell[c][d] is the cell of *)
(* column c at day d: its value v, and asof, the latest day of the         *)
(* observations v was computed from (0 for NaN).  Both downloads end at    *)
(* end_date, so the rows of the two frames overlap.                        *)
(***************************************************************************)
AlignDays == 370
\* line 64: diff(365)
DiffPeriods == 365
NoCell == [v |-> NaN, asof |-> 0]

\* a downloaded column is observed every `step` days from day `first`, on
\* weekdays only when wd (day t is a Saturday iff t % 7 = 0)
HasObs(plan, x) ==
    /\ x >= plan.first /\ (x - plan.first) % plan.step = 0
    /\ plan.wd => x % 7 \notin {0, 1}

\* the last, and the first, day of a .. b at which f is TRUE; 0 when none
RECURSIVE LastTrue(_, _, _)
LastTrue(f, a, b) ==
    IF a > b THEN 0
    ELSE IF a = b THEN (IF f[a] THEN a ELSE 0)
    ELSE LET mid == (a + b) \div 2
             r == LastTrue(f, mid + 1, b)
         IN  IF r # 0 THEN r ELSE LastTrue(f, a, mid)

RECURSIVE FirstTrue(_, _, _)
FirstTrue(f, a, b) ==
    IF a > b THEN 0
    ELSE IF a = b THEN (IF f[a] THEN a ELSE 0)
    ELSE LET mid == (a + b) \div 2
             l == FirstTrue(f, a, mid)
         IN  IF l # 0 THEN l ELSE FirstTrue(f, mid + 1, b)

\* lines 24-25 and 38-39: the downloaded frame has one row per day on which
\* any of its columns is observed; resample('D').ffill() gives every day from
\* the first row to the last the cells of the latest row at or before it,
\* NaN cells included.  No column (the except branch): pd.DataFrame().
Resampled(plans) ==
    LET idx == [x \in 1 .. AlignDays |-> \E c \in DOMAIN plans : HasObs(plans[c], x)]
        lo == FirstTrue(idx, 1, AlignDays)
        hi == LastTrue(idx, 1, AlignDays)
    IN  IF lo = 0 THEN [lo |-> 1, hi |-> 0, cell |-> <<>>]
        ELSE [lo |-> lo, hi |-> hi,
              cell |-> [c \in DOMAIN plans |-> [d \in lo .. hi |->
                          LET r == LastTrue(idx, lo, d)
                          IN  IF HasObs(plans[c], r)
                              THEN [v |-> Num(1000 * (r + 1)), asof |-> r]
                              ELSE NoCell]]]

InitAlign ==
    /\ LET macro_codes == {"WALCL", "WTREGEN", "RRPONTSYD", "BOGMBASE", "M1SL", "M2SL",
                           "CURRCIR", "GFDEBTN"}
           tickers == {"SPY", "TLT", "GLD", "BTC-USD", "USO"}
           macro(fw, fq) == [c \in macro_codes |->
                IF c = "GFDEBTN" THEN [first |-> fq, step |-> 91, wd |-> FALSE]
                ELSE IF c = "RRPONTSYD" THEN [first |-> fw, step |-> 1, wd |-> TRUE]
                ELSE IF c \in {"M1SL", "M2SL", "BOGMBASE"}
                     THEN [first |-> fw + 2, step |-> 30, wd |-> FALSE]
                ELSE [first |-> fw, step |-> 7, wd |-> FALSE]]
           assets(fa) == [c \in tickers |->
                [first |-> IF c = "BTC-USD" THEN 1 ELSE fa, step |-> 1, wd |-> c # "BTC-USD"]]
       IN  \E m \in {<<>>} \cup {macro(fw, fq) : fw \in {1, 4}, fq \in {1, 3, 5}} :
           \E a \in {<<>>} \cup {assets(fa) : fa \in {1, 2, 6}} :
               obs = [macro |-> m, assets |-> a]
    /\ df_macro = <<>>
    /\ df_assets = <<>>
    /\ df_all = <<>>
    /\ pcG = "fetch"
    /\ IdleT /\ IdleA /\ IdleS /\ IdleC /\ IdleR /\ IdleP

\* lines 21-41: the two downloads, each resampled to days
Fetch ==
    /\ pcG = "fetch"
    /\ df_macro' = Resampled(obs.macro)
    /\ df_assets' = Resampled(obs.assets)
    /\ pcG' = "concat"
    /\ UNCHANGED <<obs, df_all, varsT, varsA, varsS, varsC, varsR, varsP>>

\* lines 46-47: pd.concat(axis=1), sort_index(), ffill(), dropna(how='all')
ConcatAll ==
    /\ pcG = "concat"
    /\ LET ca == DOMAIN df_macro.cell
           cb == DOMAIN df_assets.cell
           lo == IF ca = {} THEN df_assets.lo ELSE IF cb = {} THEN df_macro.lo
                 ELSE IF df_macro.lo < df_assets.lo THEN df_macro.lo ELSE df_assets.lo
           hi == IF ca = {} THEN df_assets.hi ELSE IF cb = {} THEN df_macro.hi
                 ELSE IF df_macro.hi > df_assets.hi THEN df_macro.hi ELSE df_assets.hi
           joined(c, d) == LET f == IF c \in ca THEN df_macro ELSE df_assets
                           IN  IF d \in f.lo .. f.hi THEN f.cell[c][d] ELSE NoCell
           filled(c, d) == LET r == LastTrue([x \in lo .. hi |-> ~IsNaN(joined(c, x).v)], lo, d)
                           IN  IF r = 0 THEN NoCell ELSE joined(c, r)
           kept == FirstTrue([x \in lo .. hi |-> \E c \in ca \cup cb : ~IsNaN(filled(c, x).v)],
                             lo, hi)
       IN  df_all' = IF kept = 0 THEN [lo |-> 1, hi |-> 0, cell |-> <<>>]
                     ELSE [lo |-> kept, hi |-> hi,
                           cell |-> [c \in ca \cup cb |-> [d \in kept .. hi |-> filled(c, d)]]]
    /\ pcG' = "derive"
    /\ UNCHANGED <<obs, df_macro, df_assets, varsT, varsA, varsS, varsC, varsR, varsP>>

\* lines 49-56: the renamed and rescaled columns; an empty frame is returned as it is
Derive ==
    /\ pcG = "derive"
    /\ LET cols == DOMAIN df_all.cell
           new == {n \in {<<"Fed_Assets", "WALCL", 1000>>, <<"TGA", "WTREGEN", 1000>>,
                          <<"RRP", "RRPONTSYD", 1>>, <<"M2", "M2SL", 1>>, <<"M1", "M1SL", 1>>,
                          <<"M0", "BOGMBASE", 1000>>, <<"Currency", "CURRCIR", 1000>>} :
                      n[2] \in cols}
           from(c) == CHOOSE n \in new : n[1] = c
       IN  df_all' = [df_all EXCEPT !.cell =
               [c \in cols \cup {n[1] : n \in new} |->
                   IF c \in cols THEN df_all.cell[c]
                   ELSE [d \in df_all.lo .. df_all.hi |->
                           LET x == df_all.cell[from(c)[2]][d]
                           IN  [v |-> FDiv(x.v, Num(from(c)[3])), asof |-> x.asof]]]]
    /\ pcG' = IF DOMAIN df_all.cell = {} THEN "done" ELSE "fiscal"
    /\ UNCHANGED <<obs, df_macro, df_assets, varsT, varsA, varsS, varsC, varsR, varsP>>

\* lines 61-65: Total_Debt, its change over 365 rows, and fillna(method='bfill')
Fiscal ==
    /\ pcG = "fiscal"
    /\ LET cols == DOMAIN df_all.cell
           lo == df_all.lo
           hi == df_all.hi
           debt(d) == LET x == df_all.cell["GFDEBTN"][d]
                      IN  [v |-> FDiv(x.v, Num(1000)), asof |-> x.asof]
           diff(d) == IF d - DiffPeriods < lo \/ IsNaN(debt(d).v) \/ IsNaN(debt(d - DiffPeriods).v)
                      THEN NoCell
                      ELSE [v |-> FSub(debt(d).v, debt(d - DiffPeriods).v),
                            asof |-> IF debt(d).asof > debt(d - DiffPeriods).asof
                                     THEN debt(d).asof ELSE debt(d - DiffPeriods).asof]
           bfill(d) == LET r == FirstTrue([x \in lo .. hi |-> ~IsNaN(diff(x).v)], d, hi)
                       IN  IF r = 0 THEN NoCell ELSE diff(r)
       IN  df_all' = IF "GFDEBTN" \notin cols THEN df_all
                     ELSE [df_all EXCEPT !.cell =
                             [c \in cols \cup {"Total_Debt", "Fiscal_Injection"} |->
                                 IF c = "Total_Debt" THEN [d \in lo .. hi |-> debt(d)]
                                 ELSE IF c = "Fiscal_Injection" THEN [d \in lo .. hi |-> bfill(d)]
                                 ELSE df_all.cell[c]]]
    /\ pcG' = "net"
    /\ UNCHANGED <<obs, df_macro, df_assets, varsT, varsA, varsS, varsC, varsR, varsP>>

\* lines 67-71: Net_Liquidity when its three columns are there; return df_all
NetLiquidity ==
    /\ pcG = "net"
    /\ LET cols == DOMAIN df_all.cell
           net(d) == LET a == df_all.cell["Fed_Assets"][d]
                         b == df_all.cell["TGA"][d]
                         c == df_all.cell["RRP"][d]
                         m == IF a.asof > b.asof THEN a.asof ELSE b.asof
                     IN  IF IsNaN(a.v) \/ IsNaN(b.v) \/ IsNaN(c.v) THEN NoCell
                         ELSE [v |-> FSub(FSub(a.v, b.v), c.v),
                               asof |-> IF m > c.asof THEN m ELSE c.asof]
       IN  df_all' = IF ~({"Fed_Assets", "TGA", "RRP"} \subseteq cols) THEN df_all
                     ELSE [df_all EXCEPT !.cell =
                             [c \in cols \cup {"Net_Liquidity"} |->
                                 IF c = "Net_Liquidity"
                                 THEN [d \in df_all.lo .. df_all.hi |-> net(d)]
                                 ELSE df_all.cell[c]]]
    /\ pcG' = "done"
    /\ UNCHANGED <<obs, df_macro, df_assets, varsT, varsA, varsS, varsC, varsR, varsP>>

NextAlign == Fetch \/ ConcatAll \/ Derive \/ Fiscal \/ NetLiquidity
SpecAlign == InitAlign /\ [][NextAlign]_vars

(***************************************************************************)
(* Claims about the radar engines (SpecAnim, SpecSnap, SpecRadar).         *)
(***************************************************************************)
\* the tickers whose inner loop has started, and the sample dates it has run
Started == {t \in DOMAIN data : t \notin todo /\ Len(data[t]) >= rolling_window + MinExtra}
Iterated(t) ==
    LET dd == display_dates(data[t], now)
    IN  {dd[i] : i \in 1 .. (IF t = cur THEN di - 1 ELSE Len(dd))}
RecordsOf(t, d) == {i \in 1 .. Len(processed_dfs) :
                      processed_dfs[i].Ticker = t /\ processed_dfs[i].Date = d}
\* the (group, ticker) entries the snapshot loop has run
Entered == {pool[i] : i \in 1 .. (pi - 1)}
MetricsOf(t) == {i \in 1 .. Len(metrics) : metrics[i].Ticker = t}

\* the minimum-history threshold, as the claims state it
MeetsHistory(t, d) == 10 * CountUpTo(data[t], d) >= 9 * rolling_window
SnapMeetsHistory(t) == t \in DOMAIN raw_data /\ Len(raw_data[t]) >= SnapWindow
FlatWindow(t, d) == StdIsZero(data[t], WindowLo(data[t], d), WindowHi(data[t], d))

\* C4 (as claimed): every momentum lookback reads an observation dated at or
\* before its sample date, never a later one.
C4_NoLookahead == \A l \in lookups : l.obs <= l.Date

\* C5 (as claimed): the lookback price is the latest observation dated at or
\* before the sample date minus 4 weeks.
C5_NearestPrior ==
    \A l \in lookups :
        LET s == data[l.Ticker]
            k == CountUpTo(s, l.Date - LookbackDays)
        IN  k >= 1 /\ l.obs = s[k].day

\* C6 (as claimed): at a sample date whose lookback target precedes the
\* entity's first observation, the momentum reported is the neutral 0.
C6_NeutralMomentum ==
    \A t \in Started : \A d \in Iterated(t) :
        d - LookbackDays < data[t][1].day =>
            \E i \in RecordsOf(t, d) : FEq(processed_dfs[i].Momentum, Num(0))

\* C6 (amended): no record is emitted for a sample date whose lookback target
\* precedes the entity's first observation.
C6_NoRecordBeforeHistory ==
    \A i \in 1 .. Len(processed_dfs) :
        processed_dfs[i].Date - LookbackDays >= data[processed_dfs[i].Ticker][1].day

\* C6 witness: the loop has run a date whose lookback target precedes the
\* first observation, and has emitted records for later dates of that ticker.
C6_Witness ==
    /\ pcA = "done"
    /\ \E t \in Started :
          /\ \E d \in Iterated(t) : d - LookbackDays < data[t][1].day
          /\ \E d \in Iterated(t) : RecordsOf(t, d) # {}

\* C7 (as claimed): where the trailing window is flat, the Z-score reported
\* for that (entity, date) is 0, in the animated and the snapshot engines.
C7_FlatWindowZero ==
    /\ \A t \in Started : \A d \in Iterated(t) :
          MeetsHistory(t, d) /\ FlatWindow(t, d) =>
              \E i \in RecordsOf(t, d) : FEq(processed_dfs[i].Z, Num(0))
    /\ \A e \in Entered :
          /\ SnapMeetsHistory(e.ticker)
          /\ StdIsZero(raw_data[e.ticker], Len(raw_data[e.ticker]) - SnapWindow + 1,
                       Len(raw_data[e.ticker]))
          => \E i \in MetricsOf(e.ticker) : FEq(metrics[i].Z, Num(0))

\* C8: no record is emitted for an (entity, date) with fewer observations at
\* or before the date than the threshold: 0.9 x 252 in the animated engine,
\* 250 in the snapshot engines (whose date is the last one of the series).
C8_NoRecordBelowThreshold ==
    /\ \A i \in 1 .. Len(processed_dfs) :
          MeetsHistory(processed_dfs[i].Ticker, processed_dfs[i].Date)
    /\ \A i \in 1 .. Len(metrics) : SnapMeetsHistory(metrics[i].Ticker)

\* C8 witness: the animated engine has returned; one ticker was skipped on
\* its early dates, below the threshold, and has records for its later dates.
C8_Witness ==
    /\ pcA = "done"
    /\ \E t \in Started :
          /\ \E d \in Iterated(t) : ~MeetsHistory(t, d) /\ RecordsOf(t, d) = {}
          /\ \E d \in Iterated(t) : MeetsHistory(t, d) /\ RecordsOf(t, d) # {}

\* C9 (as claimed): exactly one record for every entity and sample date that
\* meets the threshold, flat windows and multiply listed entities included.
C9_ExactlyOne ==
    /\ \A t \in Started : \A d \in Iterated(t) :
          MeetsHistory(t, d) => Cardinality(RecordsOf(t, d)) = 1
    /\ \A e \in Entered :
          SnapMeetsHistory(e.ticker) => Cardinality(MetricsOf(e.ticker)) = 1

\* C10 (as claimed): where the lookback price is zero, the record is emitted
\* with momentum 0 (in pages/0, whose record carries only the relative
\* strength, with a finite relative strength).
C10_ZeroDenominator ==
    /\ \A t \in Started : \A d \in Iterated(t) :
          LET idx == searchsorted(data[t], d - LookbackDays)
          IN  /\ MeetsHistory(t, d) /\ ~FlatWindow(t, d)
              /\ idx < Len(data[t]) /\ data[t][idx + 1].px = 0
              => \E i \in RecordsOf(t, d) : FEq(processed_dfs[i].Momentum, Num(0))
    /\ \A e \in Entered :
          /\ SnapMeetsHistory(e.ticker)
          /\ ILocBack(raw_data[e.ticker], SnapLookback).px = 0
          => \E i \in MetricsOf(e.ticker) :
                IF engine = "p0" THEN IsNum(metrics[i].Rel)
                ELSE FEq(metrics[i].Momentum, Num(0))

(***************************************************************************)
(* Momentum, relative strength and trend structure.                        *)
(***************************************************************************)
\* 100 x (price[hi] / price[k] - 1), rounded as the record rounds it
PctChange(s0, k, hi) ==
    Round2(FMul(FSub(FDiv(Num(s0[hi].px), Num(s0[k].px)), Num(1)), Num(100)))

\* the benchmark is there and long enough for its momentum
HasBenchmark == "SPY" \in DOMAIN raw_data /\ Len(raw_data["SPY"]) >= SnapLookback

\* C11 (as claimed): the momentum of a record is 100 x (price[d] / price[k] - 1),
\* k being the observation 20 observations before the last one at or before
\* d, in the animated and in the snapshot engines (pages/0 reports it less the
\* benchmark's).
C11_MomentumFormula ==
    /\ \A i \in 1 .. Len(processed_dfs) :
          LET r == processed_dfs[i]
              s0 == data[r.Ticker]
              hi == CountUpTo(s0, r.Date)
              k == hi - (SnapLookback - 1)
          IN  k >= 1 /\ s0[k].px > 0 => FEq(r.Momentum, PctChange(s0, k, hi))
    /\ \A i \in 1 .. Len(metrics) :
          LET r == metrics[i]
              s0 == raw_data[r.Ticker]
              hi == Len(s0)
              k == hi - (SnapLookback - 1)
          IN  s0[k].px > 0 =>
                IF engine = "p0"
                THEN FEq(r.Rel, Round2(FSub(Mom20(s0), spy_mom20)))
                     /\ FEq(Round2(Mom20(s0)), PctChange(s0, k, hi))
                ELSE FEq(r.Momentum, PctChange(s0, k, hi))

\* C12: without a benchmark momentum (SPY missing, or shorter than the 21
\* observations it takes), the relative strength of every record is the
\* entity's own absolute momentum.
C12_BenchmarkFallback ==
    \A i \in 1 .. Len(metrics) :
        engine \in {"p0", "p1"} /\ ~HasBenchmark =>
            /\ FEq(metrics[i].Rel, Round2(Mom20(raw_data[metrics[i].Ticker])))
            /\ engine = "p1" => FEq(metrics[i].Rel, metrics[i].Momentum)

\* C12 witness: a page with relative strength has finished without a
\* benchmark momentum and has emitted a record whose relative strength is
\* not zero.
C12_Witness ==
    /\ pcS = "done" /\ engine \in {"p0", "p1"} /\ ~HasBenchmark
    /\ \E i \in 1 .. Len(metrics) : IsNum(metrics[i].Rel) /\ metrics[i].Rel.n # 0

\* C13 (as claimed): the benchmark momentum subtracted from an entity's
\* momentum runs between the same two calendar days as the entity's.
C13_SameHorizonSameDate ==
    \A i \in 1 .. Len(metrics) :
        engine \in {"p0", "p1"} /\ HasBenchmark =>
            Mom20Span(raw_data[metrics[i].Ticker]) = Mom20Span(raw_data["SPY"])

AllPositive(b) == FGt(b.c_s, Num(0)) /\ FGt(b.s_m, Num(0)) /\ FGt(b.m_l, Num(0)) /\ FGt(b.l_vl, Num(0))
AllNegative(b) == FLt(b.c_s, Num(0)) /\ FLt(b.s_m, Num(0)) /\ FLt(b.m_l, Num(0)) /\ FLt(b.l_vl, Num(0))

\* C14: the structure is strong_uptrend exactly when the four biases are all
\* positive, and strong_downtrend exactly when they are all negative.
C14_PerfectAlignment ==
    structure # "" =>
        /\ structure = "strong_uptrend" <=> AllPositive(bias)
        /\ structure = "strong_downtrend" <=> AllNegative(bias)

\* C14 witness: four negative biases have been classified strong_downtrend.
C14_Witness == structure = "strong_downtrend" /\ AllNegative(bias)

\* a zero bias read as a positive one
ZeroAsPositive(b) == [c \in DOMAIN b |-> IF FEq(b[c], Num(0)) THEN Num(1) ELSE b[c]]

\* C15 (as claimed): the structure of a record is the one its biases would
\* get with every bias that is exactly zero taken as positive.
C15_TiesNonNegative ==
    \A i \in 1 .. Len(metrics) :
        engine \in {"p0", "p1"} =>
            metrics[i].Structure = Structure(ZeroAsPositive(metrics[i].Biases))

\* C16: when the biases are neither all positive nor all negative, the
\* structure is bull_pullback exactly when L/VL is positive and C/S negative,
\* and bear_bounce exactly when L/VL is negative and C/S positive.
C16_PullbackAndBounce ==
    structure # "" /\ ~AllPositive(bias) /\ ~AllNegative(bias) =>
        /\ structure = "bull_pullback" <=> (FGt(bias.l_vl, Num(0)) /\ FLt(bias.c_s, Num(0)))
        /\ structure = "bear_bounce" <=> (FLt(bias.l_vl, Num(0)) /\ FGt(bias.c_s, Num(0)))

\* C16 witness: a pullback has been classified whose S/M bias is positive.
C16_Witness ==
    /\ structure = "bull_pullback"
    /\ FGt(bias.l_vl, Num(0)) /\ FLt(bias.c_s, Num(0)) /\ FGt(bias.s_m, Num(0))

StrictlyIncreasing(s0) == \A i \in 1 .. (Len(s0) - 1) : s0[i].px < s0[i + 1].px

\* C17: a record computed from a strictly increasing series has a positive
\* Z-score and, on the pages that classify the trend, the structure
\* strong_uptrend.
C17_RisingSeries ==
    \A i \in 1 .. Len(metrics) :
        StrictlyIncreasing(raw_data[metrics[i].Ticker]) =>
            /\ FGt(metrics[i].Z, Num(0))
            /\ engine \in {"p0", "p1"} => metrics[i].Structure = "strong_uptrend"

\* C17 witness: pages/0 has finished with a record of a strictly increasing
\* series of at least 250 observations.
C17_Witness ==
    /\ pcS = "done" /\ engine = "p0"
    /\ \E i \in 1 .. Len(metrics) :
          /\ StrictlyIncreasing(raw_data[metrics[i].Ticker])
          /\ Len(raw_data[metrics[i].Ticker]) >= SnapWindow
          /\ metrics[i].Structure = "strong_uptrend"

(***************************************************************************)
(* Categories, failures and missing symbols.                               *)
(***************************************************************************)
\* the sections of PORTFOLIO_CONFIG that list a ticker
SectionsOf(t) == {PORTFOLIO_CONFIG[i].section :
                    i \in {j \in 1 .. Len(PORTFOLIO_CONFIG) : t \in PORTFOLIO_CONFIG[j].tickers}}
PriorityLabel(t) == IF "C" \in SectionsOf(t) THEN "C"
                    ELSE IF "B" \in SectionsOf(t) THEN "B" ELSE "A"

\* C18: every ticker of the pool has one label, the highest of C, B, A among
\* the sections listing it; every record carries that label; and no ticker
\* has two records for one date.
C18_SingleCategory ==
    /\ \A t \in get_unique_tickers :
          get_category_label(t) \in SectionsOf(t) /\ get_category_label(t) = PriorityLabel(t)
    /\ \A i \in 1 .. Len(processed_dfs) :
          processed_dfs[i].Category = PriorityLabel(processed_dfs[i].Ticker)
    /\ \A i, j \in 1 .. Len(processed_dfs) :
          /\ processed_dfs[i].Ticker = processed_dfs[j].Ticker
          /\ processed_dfs[i].Date = processed_dfs[j].Date
          => i = j

\* C18 witness: the engine has returned records of a ticker listed in A and B
\* under B, and records of a ticker listed in A and C under C.
C18_Witness ==
    /\ pcA = "done"
    /\ \E i \in 1 .. Len(processed_dfs) :
          /\ Cardinality(SectionsOf(processed_dfs[i].Ticker)) = 2
          /\ processed_dfs[i].Category = "B"
    /\ \E i \in 1 .. Len(processed_dfs) :
          /\ Cardinality(SectionsOf(processed_dfs[i].Ticker)) = 2
          /\ processed_dfs[i].Category = "C"

C20_MissingSymbolTolerated ==
    /\ pcT = "nopage" => DOMAIN df = {}
    /\ pcS # "raised"

(***************************************************************************)
(* The asset leaves and the m2 node of the treemap (SpecTree).             *)
(***************************************************************************)
AssetLeaf == [spy |-> "SPY", tlt |-> "TLT", gld |-> "GLD", btc |-> "BTC-USD", uso |-> "USO"]
Anchor(col) == Num(LATEST_CAPS[col])
RowOf(f) == df_weekly_row(df, f.name)

\* C24 (as claimed): every asset leaf of every frame is the anchor times the
\* ratio of the asset's price at the frame's date to its latest price.
C24_AnchoredScaling ==
    \A f \in FrameSet : \A id \in DOMAIN AssetLeaf :
        LET col == AssetLeaf[id]
        IN  col \in DOMAIN df =>
              FEq(Value(f, id), FMul(Anchor(col), FDiv(RowOf(f)[col], latest_row(df)[col])))

\* C24 (amended): where the latest price is a nonzero number the leaf is the
\* anchor times (price at the date / latest price), a date without a price
\* counting as price 0; where the latest price is 0 the leaf is the anchor.
C24_AnchoredWhereDefined ==
    \A f \in FrameSet : \A id \in DOMAIN AssetLeaf :
        LET col == AssetLeaf[id]
            last == latest_row(df)[col]
        IN  col \in DOMAIN df =>
              /\ IsNum(last) /\ last.n # 0 =>
                    FEq(Value(f, id), FMul(Anchor(col), FDiv(get_val(RowOf(f), col), last)))
              /\ FEq(last, Num(0)) => FEq(Value(f, id), Anchor(col))

\* C24 witness: the series is finished; one asset has no price yet at the
\* first frame's date and a nonzero latest price, another has latest price 0.
C24_Witness ==
    /\ pcT = "done"
    /\ \E id \in DOMAIN AssetLeaf :
          /\ AssetLeaf[id] \in DOMAIN df
          /\ IsNaN(RowOf(frames[1])[AssetLeaf[id]])
          /\ FGt(latest_row(df)[AssetLeaf[id]], Num(0))
          /\ FEq(Value(frames[1], id), Num(0))
          /\ FEq(Value(frames[Len(frames)], id), Anchor(AssetLeaf[id]))
    /\ \E id \in DOMAIN AssetLeaf :
          /\ AssetLeaf[id] \in DOMAIN df
          /\ FEq(latest_row(df)[AssetLeaf[id]], Num(0))

\* C29: when the series is finished, every asset leaf of the last frame whose
\* latest price is a nonzero number has exactly the anchor as its value.
C29_LastFrameAnchors ==
    pcT = "done" /\ Len(frames) > 0 =>
        \A id \in DOMAIN AssetLeaf :
            LET col == AssetLeaf[id]
            IN  /\ col \in DOMAIN df
                /\ IsNum(latest_row(df)[col]) /\ latest_row(df)[col].n # 0
                => Value(frames[Len(frames)], id) = Anchor(col)

\* C29 witness: a finished series whose last frame shows an asset at its
\* anchor while an earlier frame shows it at another, nonzero value.
C29_Witness ==
    /\ pcT = "done" /\ Len(frames) >= 2
    /\ \E id \in DOMAIN AssetLeaf :
          /\ AssetLeaf[id] \in DOMAIN df
          /\ Value(frames[Len(frames)], id) = Anchor(AssetLeaf[id])
          /\ IsNum(Value(frames[1], id))
          /\ Value(frames[1], id).n # 0
          /\ Value(frames[1], id) # Anchor(AssetLeaf[id])

\* C30: in every frame m2_other is max(0, M2 - M1), never negative, and the
\* m2 node is max(M1, M2): M2 where M2 >= M1, and M1 otherwise (M1 and M2 as
\* the frame reads them from its row).
C30_M2IsMax ==
    \A f \in FrameSet :
        LET m1 == get_val(RowOf(f), "M1")
            m2 == get_val(RowOf(f), "M2")
        IN  /\ ~FLt(Value(f, "m2_other"), Num(0))
            /\ Value(f, "m2_other") = (IF FGt(FSub(m2, m1), Num(0)) THEN FSub(m2, m1) ELSE Num(0))
            /\ Value(f, "m2") = (IF FLt(m2, m1) THEN m1 ELSE m2)

\* C30 witness: a frame whose row has M1 above M2, both defined: the m2 node
\* shows M1 and m2_other is 0.
C30_Witness ==
    \E f \in FrameSet :
        /\ "M1" \in DOMAIN df /\ IsNum(RowOf(f)["M1"]) /\ IsNum(RowOf(f)["M2"])
        /\ FLt(RowOf(f)["M2"], RowOf(f)["M1"])
        /\ Value(f, "m2") = RowOf(f)["M1"]
        /\ FEq(Value(f, "m2_other"), Num(0))

(***************************************************************************)
(* The default structure, the numerator price and the history check.       *)
(***************************************************************************)
Directional == {"strong_uptrend", "strong_downtrend", "bull_pullback", "long_term_bullish",
                "bear_bounce", "long_term_bearish"}

\* C25 (as claimed): the structure is choppy exactly when L/VL is zero.
C25_ChoppyIffFlatLong ==
    structure # "" => (structure = "choppy" <=> FEq(bias.l_vl, Num(0)))

\* C25: the structure is choppy exactly when L/VL is zero or is not a number,
\* and one of the six directional states for every other L/VL, whatever the
\* other three biases are.
C25_ChoppyIffFlatOrUndefined ==
    structure # "" =>
        /\ structure = "choppy" <=> (FEq(bias.l_vl, Num(0)) \/ IsNaN(bias.l_vl))
        /\ (~FEq(bias.l_vl, Num(0)) /\ ~IsNaN(bias.l_vl)) => structure \in Directional

\* C25 witness: biases with L/VL zero and C/S and S/M of opposite signs have
\* been classified choppy.
C25_Witness ==
    /\ structure = "choppy"
    /\ FEq(bias.l_vl, Num(0)) /\ FGt(bias.c_s, Num(0)) /\ FLt(bias.s_m, Num(0))

\* C27 (as claimed): the Price of every record is the last observation at or
\* before the record's date, the last element of its trailing window.
C27_NumeratorIsWindowLast ==
    \A i \in 1 .. Len(processed_dfs) :
        LET s0 == data[processed_dfs[i].Ticker]
        IN  FEq(processed_dfs[i].Price, Round2(Num(s0[WindowHi(s0, processed_dfs[i].Date)].px)))

\* the history check of line 75 passes at (t, d)
Eligible(t, d) == ~TooShort(WindowLen(data[t], d))

\* C28: over the sample dates of one entity, a date that passes the history
\* check is followed only by dates that pass it: at every sample date the loop
\* stands on, the check passes if it passed at any date already iterated.
C28_EligibilityMonotone ==
    AtDate => \A d1 \in Iterated(cur) : Eligible(cur, d1) => Eligible(cur, CurDate)

\* C28 witness: the engine has returned; one ticker failed the history check
\* at an early sample date, passed it later, and has records at two later
\* dates with a week without observation between them.
C28_Witness ==
    /\ pcA = "done"
    /\ \E t \in Started : \E d0 \in Iterated(t) :
          /\ ~Eligible(t, d0)
          /\ \E d1 \in Iterated(t) :
                /\ d0 < d1 /\ Eligible(t, d1) /\ RecordsOf(t, d1) # {}
                /\ \E d2 \in Iterated(t) :
                      /\ d1 < d2 /\ IsNaN(price_weekly(data[t], d2))
                      /\ \E d3 \in Iterated(t) :
                            d2 < d3 /\ Eligible(t, d3) /\ RecordsOf(t, d3) # {}

C22_Idempotent ==
    (run_no = 1 /\ pcA = "done") => full_df = first_df

(***************************************************************************)
(* app.py (SpecApp).                                                       *)
(***************************************************************************)
\* C26 (as claimed): a call of get_market_data whose download succeeded ends
\* with records for exactly the entities named in its two arguments.
C26_ExactlyArguments ==
    (net_ok /\ all_tickers # {} /\ pcP \in {"returned", "raised"}) =>
        (pcP = "returned" /\ app_df = single_dict \cup basket_dict)

(***************************************************************************)
(* The aligned table (SpecAlign).                                          *)
(***************************************************************************)
\* C21 (as claimed): every defined cell of the aligned table, raw or derived,
\* at day d was computed from observations of day d or earlier.
C21_NoLookahead ==
    pcG \in {"derive", "fiscal", "net", "done"} =>
        \A c \in DOMAIN df_all.cell : \A d \in df_all.lo .. df_all.hi :
            ~IsNaN(df_all.cell[c][d].v) => df_all.cell[c][d].asof <= d

====
